---------------------------- MODULE Spec2Model ----------------------------
(***************************************************************************)
(* Model of the customer-support agent: the registered actions (tools)     *)
(* acting on the order / payment / ticket store and on the payment         *)
(* processor, and CustomerSupportAgent.run, the per-turn control loop.     *)
(*                                                                         *)
(* Texts (utterances, tool results, replies) are sequences of tokens.  A   *)
(* token stands for a phrase of the text; the keyword tests of the code    *)
(* ("kw in query_lower") and its regular expressions are modelled by the   *)
(* tables below, which say which tokens contain which keyword or match     *)
(* which pattern.                                                          *)
(***************************************************************************)
EXTENDS Integers, Sequences, FiniteSets, TLC

VARIABLES
    orders,     \* orders table: order_id -> status
    pay,        \* payments table: status of the (latest) payment row of ORD1
    stripe,     \* the payment processor's record of that payment
    tickets,    \* support_tickets table, in insertion order
    last,       \* the most recent direct action invocation and its result
    calls,      \* number of direct action invocations so far
    rf,         \* frames of the in-flight process_refund_for_order executions
    history,    \* conversation_history table: session -> messages, oldest first
    audit,      \* entries written by log_agent_request
    session_id, \* the shared agent's session_id (and its memory's)
    tool_results, \* the shared agent's tool_results
    t,          \* the turn in progress: locals of run and its position
    turns,      \* turns started
    faults,     \* collaborator failures the environment may still cause
    ct          \* the locals of the runs two callers have in flight at once

storeVars == <<orders, pay, stripe, tickets>>
toolVars == <<last, calls, rf, ct>>
agentVars == <<history, audit, session_id, tool_results, t, turns, faults>>
vars == <<orders, pay, stripe, tickets, last, calls, rf,
          history, audit, session_id, tool_results, t, turns, faults, ct>>

(***************************************************************************)
(* Bounds of the model.                                                    *)
(***************************************************************************)
MaxCalls == 3
MaxTickets == 2

(***************************************************************************)
(* Program constants.                                                      *)
(***************************************************************************)
REFUND_LIMIT_USD == 120
REFUND_LIMIT_INR == 10000

OrderIds == {"ORD1", "ORD2"}      \* ORD1 is in the store, ORD2 is not
Emails == {"a@x.com", "b@y.com"}
SeedStatuses == {"pending", "processing", "shipped", "delivered", "cancelled"}
Statuses == SeedStatuses \cup {"refunded"}
Progression == <<"pending", "processing", "shipped", "delivered">>

NoText == <<>>

(***************************************************************************)
(* Formatting of an amount in cents as the text of "{x / 100:.2f}".        *)
(***************************************************************************)
Fmt(cents) ==
    CASE cents = 5000 -> "50.00"
      [] cents = 15000 -> "150.00"
      [] cents = 1500000 -> "15000.00"
      [] OTHER -> "0.00"

TicketTok(n) == "TKT" \o ToString(n)

(***************************************************************************)
(* The store and the processor as one value handed to the actions.         *)
(***************************************************************************)
World == [orders |-> orders, pay |-> pay, stripe |-> stripe, tickets |-> tickets]

Ticket(n, session, issue, prio, conf) ==
    [id |-> TicketTok(n), session |-> session, issue_type |-> issue,
     priority |-> prio, status |-> "open", confidence |-> conf]

\* EscalationManager.create_ticket: one INSERT into support_tickets.
create_ticket(w, session, issue, prio, conf) ==
    [w EXCEPT !.tickets =
        Append(@, Ticket(Len(w.tickets) + 1, session, issue, prio, conf))]

(***************************************************************************)
(* Result texts of process_refund_for_order.  "[x]" is the cross mark, the *)
(* token "exc" the text of the exception that was caught.                   *)
(***************************************************************************)
R_NotFound(oid) == <<"[x]", "I couldn't find order", oid>>
R_Cancelled(oid) == <<"[x]", "has already been cancelled", oid>>
R_NoPayment(oid) == <<"[x]", "couldn't find any payment information", oid>>
R_PayStatus == <<"[x]", "payment cannot be refunded because its status is">>
R_AlreadyRefunded == <<"[x]", "has already been fully refunded">>
R_ConnError == <<"[x]", "Error connecting to payment system", "exc">>
R_OverLimit(oid, cents) == <<"exceeds our automated limit", oid, Fmt(cents)>>
R_StripeFailed == <<"[x]", "Stripe refund failed", "exc">>
R_Unexpected == <<"[x]", "An unexpected error occurred", "exc">>
R_RefundOk(oid, cents, email, sent) ==
    <<"[ok]", "Refund Processed Successfully", oid, Fmt(cents)>>
        \o (IF sent THEN <<email>> ELSE <<>>)

IsRefundOk(res) == Len(res) >= 2 /\ res[2] = "Refund Processed Successfully"

(***************************************************************************)
(* process_refund_for_order, one store statement or processor call per     *)
(* step.  f is the frame of the execution (its locals and its position),   *)
(* w the store and the processor; fault says that the collaborator used in *)
(* this step raises; attr that the retrieved payment intent carries        *)
(* amount_refunded (getattr(..., 0) otherwise); mail that the notification *)
(* was delivered.                                                          *)
(***************************************************************************)
RefundFrame(oid, email) ==
    [pc |-> "read_order", oid |-> oid, email |-> email, cents |-> 0,
     result |-> NoText, asked |-> FALSE, created |-> FALSE]

RefundDone(f, w, res) == [f |-> [f EXCEPT !.pc = "done", !.result = res], w |-> w]

RefundGoto(f, w, pc) == [f |-> [f EXCEPT !.pc = pc], w |-> w]

\* a guardrail that knows the USD limit only
OverLimit_usd_only(cur, cents) == cur = "USD" /\ cents > REFUND_LIMIT_USD * 100

OverLimit(cur, cents) ==
    \/ cur = "USD" /\ cents > REFUND_LIMIT_USD * 100
    \/ cur = "INR" /\ cents > REFUND_LIMIT_INR * 100

\* Step 1: SELECT the order; not found, or already cancelled.
RefundReadOrder(f, w, fault) ==
    IF fault THEN RefundDone(f, w, R_Unexpected)
    ELSE IF f.oid \notin DOMAIN w.orders THEN RefundDone(f, w, R_NotFound(f.oid))
    ELSE IF w.orders[f.oid] = "cancelled" THEN RefundDone(f, w, R_Cancelled(f.oid))
    ELSE RefundGoto(f, w, "read_payment")

\* Steps 2 and 3: SELECT the latest payment row; its database status.
RefundReadPayment(f, w, fault) ==
    IF fault THEN RefundDone(f, w, R_Unexpected)
    ELSE IF w.pay = "none" THEN RefundDone(f, w, R_NoPayment(f.oid))
    ELSE IF w.pay # "succeeded" THEN RefundDone(f, w, R_PayStatus)
    ELSE RefundGoto(f, w, "retrieve")

\* Steps 4 and 5: stripe.PaymentIntent.retrieve, eligibility, refund limits.
RefundRetrieve(f, w, fault, attr) ==
    LET amount_refunded == IF attr THEN w.stripe.refunded ELSE 0
        refund_amount == w.stripe.amount - amount_refunded
    IN  IF fault THEN RefundDone(f, w, R_ConnError)
        ELSE IF w.stripe.status # "succeeded" THEN RefundDone(f, w, R_PayStatus)
        ELSE IF amount_refunded >= w.stripe.amount
             THEN RefundDone(f, w, R_AlreadyRefunded)
        ELSE IF OverLimit(w.stripe.currency, refund_amount)
             THEN RefundDone(f, w, R_OverLimit(f.oid, refund_amount))
        ELSE RefundGoto([f EXCEPT !.cents = refund_amount], w, "create")

\* a refund that goes on to the order's update when the processor refuses
RefundCreate_update_anyway(f, w, fault) ==
    RefundGoto([f EXCEPT !.asked = TRUE], w, "update")

\* Step 6: stripe.Refund.create for the whole remaining amount.  The
\* processor raises when it is unreachable and when nothing remains to refund.
\* asked: the execution has sent its creation request; created: it was granted.
RefundCreate(f, w, fault) ==
    IF fault \/ w.stripe.refunded >= w.stripe.amount
    THEN RefundDone([f EXCEPT !.asked = TRUE], w, R_StripeFailed)
    ELSE RefundGoto([f EXCEPT !.asked = TRUE, !.created = TRUE],
                    [w EXCEPT !.stripe.refunded = w.stripe.amount,
                              !.stripe.refunds = @ + 1],
                    "update")

\* Step 7: UPDATE orders SET status = 'refunded'; commit.
\* a refund that leaves the order's status as it was
RefundUpdate_skipped(f, w, fault) ==
    IF fault THEN RefundDone(f, w, R_Unexpected) ELSE RefundGoto(f, w, "notify")

\* a refund that marks the order only for the address the order's customer
\* has on record
RefundUpdate_owner_only(f, w, fault) ==
    IF fault THEN RefundDone(f, w, R_Unexpected)
    ELSE IF f.email # "a@x.com" THEN RefundGoto(f, w, "notify")
    ELSE RefundGoto(f, [w EXCEPT !.orders[f.oid] = "refunded"], "notify")

RefundUpdate(f, w, fault) ==
    IF fault THEN RefundDone(f, w, R_Unexpected)
    ELSE RefundGoto(f, [w EXCEPT !.orders[f.oid] = "refunded"], "notify")

\* a mail service whose failure to deliver leaves the call as an exception
send_email_raising(mail) == IF mail THEN "sent" ELSE "raised"

\* email_service.send_email: True when delivered; disabled, or any exception
\* of the transport, is False.  The chat-ops sender has the same shape.
send_email(mail) == IF mail THEN "sent" ELSE "failed"

\* Steps 8 and 9: customer name, notification, success message.
RefundNotify(f, w, fault, mail) ==
    IF fault \/ send_email(mail) = "raised" THEN RefundDone(f, w, R_Unexpected)
    ELSE RefundDone(f, w, R_RefundOk(f.oid, f.cents, f.email,
                                     send_email(mail) = "sent"))

RefundStep(f, w, fault, attr, mail) ==
    CASE f.pc = "read_order" -> RefundReadOrder(f, w, fault)
      [] f.pc = "read_payment" -> RefundReadPayment(f, w, fault)
      [] f.pc = "retrieve" -> RefundRetrieve(f, w, fault, attr)
      [] f.pc = "create" -> RefundCreate(f, w, fault)
      [] f.pc = "update" -> RefundUpdate(f, w, fault)
      [] f.pc = "notify" -> RefundNotify(f, w, fault, mail)
      [] OTHER -> [f |-> f, w |-> w]

RefundPoints == {"read_order", "read_payment", "retrieve", "create", "update", "notify"}

\* What the environment decides during one execution of an action: the
\* step at which a collaborator raises ("none": nowhere), whether the payment
\* intent carries amount_refunded, whether the notification is delivered.
Envs == [fault : RefundPoints \cup {"none"}, attr : BOOLEAN, mail : BOOLEAN]

RECURSIVE RunRefund(_, _, _)
RunRefund(f, w, env) ==
    IF f.pc = "done" THEN [res |-> f.result, w |-> w]
    ELSE LET n == RefundStep(f, w, env.fault = f.pc, env.attr, env.mail)
         IN  RunRefund(n.f, n.w, env)

\* The whole action, run to completion on its own.
process_refund_for_order(w, oid, email, env) ==
    RunRefund(RefundFrame(oid, email), w, env)

(***************************************************************************)
(* The other actions that read or write an order's status.  Each runs on   *)
(* its own connection inside one try block: a store fault anywhere in it   *)
(* yields the action's error result.                                       *)
(***************************************************************************)
StoreFault(env) == env.fault \in {"read_order", "update"}

\* cancel_order(order_id)
cancel_order(w, oid, env) ==
    IF StoreFault(env)
    THEN [res |-> <<"[x]", "Error cancelling order", "exc">>, w |-> w]
    ELSE IF oid \notin DOMAIN w.orders
    THEN [res |-> <<"[x]", "not found in the system", oid>>, w |-> w]
    ELSE IF w.orders[oid] \in {"delivered", "cancelled"}
    THEN [res |-> <<"[x]", "Cannot cancel order", oid, w.orders[oid]>>, w |-> w]
    ELSE [res |-> <<"[ok]", "has been successfully cancelled", oid>>,
          w |-> [w EXCEPT !.orders[oid] = "cancelled"]]

\* update_order_status(order_id, new_status); the result is a dict, shown
\* here as the text str() gives it.
update_order_status(w, oid, new_status, env) ==
    IF StoreFault(env)
    THEN [res |-> <<"'status': 'error'", "exc">>, w |-> w]
    ELSE IF oid \notin DOMAIN w.orders
    THEN [res |-> <<"'status': 'not_found'", oid>>, w |-> w]
    ELSE [res |-> <<"'status': 'success'", oid, new_status>>,
          w |-> [w EXCEPT !.orders[oid] = new_status]]

\* fetch_order(order_id)
fetch_order(w, oid, env) ==
    IF StoreFault(env)
    THEN [res |-> <<"'status': 'error'", "exc">>, w |-> w]
    ELSE IF oid \notin DOMAIN w.orders
    THEN [res |-> <<"'status': 'not_found'", oid>>, w |-> w]
    ELSE [res |-> <<"'status': 'success'", oid, w.orders[oid]>>, w |-> w]

(***************************************************************************)
(* Texts.  Keywords(tok) is the set of keywords of the code's keyword      *)
(* lists that occur in the lower-cased token.                              *)
(***************************************************************************)
Keywords(tok) ==
    CASE tok = "refund" -> {"refund"}
      [] tok = "proceed" -> {"proceed"}
      [] tok \in {"ORD1", "ORD2"} -> {"ord"}
      [] tok = "where is my order" -> {"where is my", "order", "ord"}
      [] tok = "manager" -> {"manager"}
      [] tok = "legal" -> {"legal"}
      [] tok = "attorney" -> {"attorney"}
      [] tok = "replace" -> {"replace"}
      [] tok = "damaged" -> {"damaged"}
      [] tok = "return" -> {"return"}
      [] OTHER -> {}

\* any(kw in text.lower() for kw in kws)
HasKeyword(text, kws) == \E i \in 1..Len(text) : Keywords(text[i]) \cap kws # {}

RECURSIVE FirstIn(_, _)
FirstIn(text, S) ==
    IF text = <<>> THEN ""
    ELSE IF Head(text) \in S THEN Head(text)
    ELSE FirstIn(Tail(text), S)

\* re.search(r'ord\d+', text, re.IGNORECASE): the first match, "" for None
SearchOrderId(text) == FirstIn(text, OrderIds)

\* re.search(r'[\w\.-]+@[\w\.-]+\.\w+', text)
SearchEmail(text) == FirstIn(text, Emails)

\* "if not m: m = re.search(...)": S is the set of tokens the pattern matches
OrElse(m, text, S) == IF m # "" THEN m ELSE FirstIn(text, S)

RECURSIVE Flatten(_)
Flatten(msgs) ==
    IF msgs = <<>> THEN <<>> ELSE Head(msgs).content \o Flatten(Tail(msgs))

\* the messages of a session scanned one after the other, oldest first
RECURSIVE ScanMessages(_, _, _)
ScanMessages(m, msgs, S) ==
    IF msgs = <<>> THEN m
    ELSE ScanMessages(OrElse(m, Head(msgs).content, S), Tail(msgs), S)

(***************************************************************************)
(* ConversationMemory.                                                     *)
(***************************************************************************)
Sessions == {"s0", "s1"}

Msg(role, content) == [role |-> role, content |-> content]

\* an add_message that puts the new row in front of the session's log
add_message_front(h, sid, role, content) ==
    [h EXCEPT ![sid] = <<Msg(role, content)>> \o @]

\* add_message: INSERT at the end of the session's log
add_message(h, sid, role, content) == [h EXCEPT ![sid] = Append(@, Msg(role, content))]

\* get_history(limit): the most recent messages, oldest first
get_history(h, sid, limit) ==
    LET n == Len(h[sid])
    IN  SubSeq(h[sid], IF n > limit THEN n - limit + 1 ELSE 1, n)

\* get_context_string(limit): the contents of those messages, one per line
get_context_string(h, sid, limit) == Flatten(get_history(h, sid, limit))

(***************************************************************************)
(* EscalationManager.should_escalate.  An error marker is the word "error"  *)
(* in the lower-cased result, or the byte sequence the source file holds   *)
(* for the cross mark, which is not the cross mark "[x]" the actions of    *)
(* the other files put in their results.                                   *)
(***************************************************************************)
escalation_keywords ==
    {"speak to human", "talk to person", "real person", "human agent",
     "not satisfied", "complaint", "legal", "lawsuit", "fraud",
     "emergency", "urgent", "critical", "manager", "supervisor"}

complex_keywords == {"legal", "lawsuit", "attorney", "contract", "terms violation"}

ErrorWordTokens ==
    {"Error connecting to payment system", "An unexpected error occurred",
     "Error cancelling order", "'status': 'error'", "Error: Tool not found",
     "Error executing tool", "Error searching FAQ",
     "Error processing replacement request", "Error creating support ticket",
     "I encountered an error while processing your request"}

HasErrorMarker(text) ==
    \E i \in 1..Len(text) : text[i] \in ErrorWordTokens \/ text[i] = "[x-mojibake]"

ErrorCount(results) ==
    Cardinality({i \in 1..Len(results) : HasErrorMarker(results[i])})

\* the triggers with the legal keywords tested before the failures
should_escalate_legal_first(query, results) ==
    IF HasKeyword(query, escalation_keywords)
    THEN [esc |-> TRUE, reason |-> "Customer explicitly requested"]
    ELSE IF HasKeyword(query, complex_keywords)
    THEN [esc |-> TRUE, reason |-> "Complex legal/contractual query detected"]
    ELSE IF results # <<>> /\ ErrorCount(results) >= 2
    THEN [esc |-> TRUE, reason |-> "Multiple tool failures detected"]
    ELSE [esc |-> FALSE, reason |-> ""]

should_escalate(query, results) ==
    IF HasKeyword(query, escalation_keywords)
    THEN [esc |-> TRUE, reason |-> "Customer explicitly requested"]
    ELSE IF results # <<>> /\ ErrorCount(results) >= 2
    THEN [esc |-> TRUE, reason |-> "Multiple tool failures detected"]
    ELSE IF HasKeyword(query, complex_keywords)
    THEN [esc |-> TRUE, reason |-> "Complex legal/contractual query detected"]
    ELSE [esc |-> FALSE, reason |-> ""]

(***************************************************************************)
(* _clean_response.  TechnicalTokens are the tokens the substitution       *)
(* patterns match; CharLen is the length of a token's text.                *)
(***************************************************************************)
MinCleanLen == 20

TechnicalTokens == {"fetch_order", "I'll use the fetch_order tool"}

CharLen(tok) ==
    CASE tok = "fetch_order" -> 11
      [] tok \in {" ", "\n"} -> 1
      [] tok = "I'll use the fetch_order tool" -> 29
      [] tok = "Could you provide your order number?" -> 36
      [] tok = "Thanks!" -> 7
      [] tok \in {"FINAL ANSWER:", "Final Answer:"} -> 13
      [] OTHER -> 30

RECURSIVE TextLen(_)
TextLen(text) == IF text = <<>> THEN 0 ELSE CharLen(Head(text)) + TextLen(Tail(text))

\* the tokens \s matches
Blank == {" ", "\n"}

\* the last position of the run of blank tokens text starts with that holds a
\* newline (0: none)
RECURSIVE LastNewline(_, _, _)
LastNewline(text, i, k) ==
    IF i > Len(text) \/ text[i] \notin Blank THEN k
    ELSE LastNewline(text, i + 1, IF text[i] = "\n" THEN i ELSE k)

\* re.sub(r'\n\s*\n', '\n\n', cleaned): from a newline to the last newline of
\* the same run of blanks becomes two newlines
RECURSIVE CollapseBlankLines(_)
CollapseBlankLines(text) ==
    IF text = <<>> THEN <<>>
    ELSE IF Head(text) # "\n" THEN <<Head(text)>> \o CollapseBlankLines(Tail(text))
    ELSE LET k == LastNewline(text, 1, 0)
         IN  IF k = 1 THEN <<"\n">> \o CollapseBlankLines(Tail(text))
             ELSE <<"\n", "\n">> \o CollapseBlankLines(SubSeq(text, k + 1, Len(text)))

\* a strip that takes one blank off each end
strip_one(text) ==
    LET a == IF text # <<>> /\ Head(text) \in Blank THEN Tail(text) ELSE text
    IN  IF a # <<>> /\ a[Len(a)] \in Blank THEN SubSeq(a, 1, Len(a) - 1) ELSE a

\* cleaned.strip()
RECURSIVE strip(_)
strip(text) ==
    IF text = <<>> THEN text
    ELSE IF Head(text) \in Blank THEN strip(Tail(text))
    ELSE IF text[Len(text)] \in Blank THEN strip(SubSeq(text, 1, Len(text) - 1))
    ELSE text

\* the substitutions, the blank lines and the strip: what "cleaned" holds at
\* the length test
Sanitized(response) ==
    strip(CollapseBlankLines(
        SelectSeq(response, LAMBDA tok : tok \notin TechnicalTokens)))

\* a length test that never falls back
TooShort_never(cleaned) == FALSE

\* len(cleaned) < 20
TooShort(cleaned) == TextLen(cleaned) < MinCleanLen

_clean_response(response) ==
    IF TooShort(Sanitized(response)) THEN response ELSE Sanitized(response)

(***************************************************************************)
(* The actions the fast path and the reasoning loop dispatch besides the   *)
(* ones above.  An input is the sequence of the fields that "|" separates  *)
(* in the input string.                                                    *)
(***************************************************************************)
LastTicketId(w) == w.tickets[Len(w.tickets)].id

\* semantic_search_faq(query)
semantic_search_faq(w, env) ==
    IF env.fault = "read_order"
    THEN [res |-> <<"Error searching FAQ", "exc">>, w |-> w]
    ELSE [res |-> <<"FAQ entries">>, w |-> w]

\* request_product_replacement(input_string)
request_product_replacement(w, input, env) ==
    IF Len(input) < 2
    THEN [res |-> <<"[x]", "Invalid input format">>, w |-> w]
    ELSE IF StoreFault(env)
    THEN [res |-> <<"[x]", "Error processing replacement request", "exc">>, w |-> w]
    ELSE IF input[1] \notin DOMAIN w.orders
    THEN [res |-> <<"[x]", "not found. Please check the order number", input[1]>>,
          w |-> w]
    ELSE IF w.orders[input[1]] \notin {"delivered", "shipped"}
    THEN [res |-> <<"[x]", "is not eligible for replacement", input[1],
                    w.orders[input[1]]>>, w |-> w]
    ELSE LET w1 == create_ticket(w, "replacement_ts", "product_replacement",
                                 "high", "none")
         IN  IF send_email(env.mail) = "raised"
             THEN [res |-> <<"[x]", "Error processing replacement request", "exc">>,
                   w |-> w1]
             ELSE [res |-> <<"[ok]", "Replacement Request Submitted",
                             LastTicketId(w1), input[1], input[2]>>, w |-> w1]

\* create_support_ticket(issue_description, order_id, customer_email, priority)
create_support_ticket(w, issue, oid, email, priority, env) ==
    IF StoreFault(env)
    THEN [res |-> <<"[x-mojibake]", "Error creating support ticket", "exc">>, w |-> w]
    ELSE LET w1 == create_ticket(w, "SESSION_ts", "complex_query", priority, "none")
         IN  [res |-> <<"[ok-mojibake]", "Support Ticket Created", LastTicketId(w1),
                        priority>>
                      \o (IF email # "" /\ env.mail THEN <<email>> ELSE <<>>),
              w |-> w1]

\* a resolve_ticket that flips the status instead of setting it
resolve_ticket_toggling(w, tid) ==
    LET hit == {i \in 1..Len(w.tickets) : w.tickets[i].id = tid}
    IN  [ok |-> hit # {},
         w |-> [w EXCEPT !.tickets =
                   [i \in 1..Len(@) |->
                       IF i \in hit
                       THEN [@[i] EXCEPT !.status =
                                IF @ = "open" THEN "resolved" ELSE "open"]
                       ELSE @[i]]]]

\* EscalationManager.resolve_ticket: one UPDATE setting status to resolved
\* where the id matches; the result is rowcount > 0.
resolve_ticket(w, tid) ==
    LET hit == {i \in 1..Len(w.tickets) : w.tickets[i].id = tid}
    IN  [ok |-> hit # {},
         w |-> [w EXCEPT !.tickets =
                   [i \in 1..Len(@) |->
                       IF i \in hit THEN [@[i] EXCEPT !.status = "resolved"]
                       ELSE @[i]]]]

\* the names in tool_map
ToolNames ==
    {"fetch_customer", "fetch_order", "search_orders_by_customer",
     "update_order_status", "cancel_order", "modify_order_address",
     "track_shipment", "semantic_search_faq", "search_product_documentation",
     "initiate_refund", "check_payment_status", "process_refund_for_order",
     "check_refund_eligibility", "request_product_replacement",
     "create_support_ticket", "check_ticket_status"}

Field(input, i, default) == IF Len(input) >= i THEN input[i] ELSE default

\* the input string handed over whole: one field is the string itself, several
\* are a string with "|" in it, which names no order
Raw(input) == IF Len(input) = 1 THEN input[1] ELSE "a|b"

ToolError(name) == <<"Error executing tool", name, "exc">>

\* a registry that lets the executor's exception through
Caught_rethrown(name, w) ==
    [res |-> NoText, w |-> w, logged |-> <<>>, raised |-> TRUE]

\* except Exception as e: the exception of the executor made a result
Caught(name, w) ==
    [res |-> ToolError(name), w |-> w, logged |-> <<ToolError(name)>>,
     raised |-> FALSE]

(***************************************************************************)
(* _execute_tool(tool_name, tool_input): res is the text returned, logged  *)
(* what was appended to self.tool_results, raised whether an exception     *)
(* left the call.                                                          *)
(***************************************************************************)
_execute_tool(w, name, input, env) ==
    LET Out(r) == [res |-> r.res, w |-> r.w, logged |-> <<r.res>>,
                   raised |-> FALSE]
        Err == Caught(name, w)
    IN  IF name \notin ToolNames
        THEN [res |-> <<"Error: Tool not found", name>>, w |-> w, logged |-> <<>>,
              raised |-> FALSE]
        ELSE CASE name = "process_refund_for_order" ->
                    IF Len(input) > 1
                    THEN Out(process_refund_for_order(w, input[1], input[2], env))
                    ELSE Err
               [] name = "create_support_ticket" ->
                    IF Len(input) > 1
                    THEN Out(create_support_ticket(w, input[1], input[2],
                                Field(input, 3, ""), Field(input, 4, "medium"), env))
                    ELSE Out(create_support_ticket(w, Raw(input), "", "", "medium", env))
               [] name = "cancel_order" -> Out(cancel_order(w, Raw(input), env))
               [] name = "fetch_order" -> Out(fetch_order(w, Raw(input), env))
               [] name = "semantic_search_faq" -> Out(semantic_search_faq(w, env))
               [] name = "request_product_replacement" ->
                    Out(request_product_replacement(w, input, env))
               [] name \in {"update_order_status", "modify_order_address"} ->
                    Err    \* several parameters, one string given: TypeError
               [] OTHER -> Out([res |-> <<"[data]", name>>, w |-> w])

(***************************************************************************)
(* The states the store and the processor start in: ORD1 with a seeded     *)
(* status; no payment row, a failed one, or a succeeded one whose intent   *)
(* at the processor is cancelled or succeeded, under or over the limit.    *)
(***************************************************************************)
Intent(status, cur, amount) ==
    [status |-> status, currency |-> cur, amount |-> amount,
     refunded |-> 0, refunds |-> 0]

PayScenarios ==
    { [db |-> "none", pi |-> Intent("canceled", "USD", 5000)],
      [db |-> "failed", pi |-> Intent("canceled", "USD", 5000)],
      [db |-> "succeeded", pi |-> Intent("canceled", "USD", 5000)],
      [db |-> "succeeded", pi |-> Intent("succeeded", "USD", 5000)],
      [db |-> "succeeded", pi |-> Intent("succeeded", "USD", 15000)],
      [db |-> "succeeded", pi |-> Intent("succeeded", "INR", 15000)],
      [db |-> "succeeded", pi |-> Intent("succeeded", "INR", 1500000)] }

InitStore ==
    /\ orders \in [{"ORD1"} -> SeedStatuses]
    /\ \E sc \in PayScenarios : pay = sc.db /\ stripe = sc.pi
    /\ tickets = <<>>

Commit(w) ==
    /\ orders' = w.orders
    /\ pay' = w.pay
    /\ stripe' = w.stripe
    /\ tickets' = w.tickets

StatusOf(w, oid) == IF oid \in DOMAIN w.orders THEN w.orders[oid] ELSE "absent"

\* the order exists and its payment can be refunded automatically: succeeded
\* in the store and at the processor, nothing refunded yet, within the limit
Eligible(w, oid) ==
    /\ oid \in DOMAIN w.orders
    /\ w.pay = "succeeded"
    /\ w.stripe.status = "succeeded"
    /\ w.stripe.refunded = 0
    /\ ~OverLimit(w.stripe.currency, w.stripe.amount)

(***************************************************************************)
(* The agent between requests: CustomerSupportAgent.__init__ and           *)
(* ConversationMemory.__init__ with the default session, nothing logged.   *)
(***************************************************************************)
DefaultSession == "s0"

IdleTurn ==
    [pc |-> "idle", input |-> NoText, ctx |-> NoText, ch |-> <<>>, it |-> 0,
     ret |-> NoText, outcome |-> "", llm |-> 0, cycles |-> 0, acts |-> <<>>,
     pre |-> <<>>, oid |-> "", email |-> "", tk0 |-> 0, h0 |-> 0, a0 |-> 0,
     f0 |-> 0, st0 |-> "absent", elig0 |-> FALSE, fails |-> 0, raw |-> NoText,
     outs |-> <<>>, fed |-> <<>>, ins |-> <<>>, resp |-> NoText,
     only_actions |-> TRUE]

\* no run in flight
IdleRun ==
    [pc |-> "idle", input |-> NoText, it |-> 0, own |-> <<>>, seen |-> <<>>,
     escalated |-> FALSE]

InitAgent ==
    /\ ct = [p \in {1, 2} |-> IdleRun]
    /\ history = [s \in Sessions |-> <<>>]
    /\ audit = <<>>
    /\ session_id = DefaultSession
    /\ tool_results = <<>>
    /\ t = IdleTurn
    /\ turns = 0

(***************************************************************************)
(* SpecTools: the registered actions invoked directly, one after another   *)
(* (tool.invoke, as test_refund_direct.py does), each run to completion.   *)
(***************************************************************************)
Workers == {1, 2}

NoCall == [tool |-> "none", oid |-> "", res |-> NoText, before |-> "absent",
           after |-> "absent", refundsBefore |-> 0, refundsAfter |-> 0]

Record(tool, oid, w, r) ==
    [tool |-> tool, oid |-> oid, res |-> r.res,
     before |-> StatusOf(w, oid), after |-> StatusOf(r.w, oid),
     refundsBefore |-> w.stripe.refunds, refundsAfter |-> r.w.stripe.refunds]

Finish(tool, oid, r) ==
    /\ calls < MaxCalls
    /\ calls' = calls + 1
    /\ last' = Record(tool, oid, World, r)
    /\ Commit(r.w)
    /\ UNCHANGED <<rf, ct, agentVars>>

InvokeRefund ==
    \E oid \in OrderIds, email \in Emails, env \in Envs :
        Finish("process_refund_for_order", oid,
               process_refund_for_order(World, oid, email, env))

InvokeCancel ==
    \E oid \in OrderIds, env \in Envs :
        Finish("cancel_order", oid, cancel_order(World, oid, env))

InvokeUpdateStatus ==
    \E oid \in OrderIds, st \in Statuses, env \in Envs :
        Finish("update_order_status", oid, update_order_status(World, oid, st, env))

InvokeFetch ==
    \E oid \in OrderIds, env \in Envs :
        Finish("fetch_order", oid, fetch_order(World, oid, env))

IdleFrames == [p \in Workers |-> [RefundFrame("ORD1", "a@x.com") EXCEPT !.pc = "done"]]

InitTools ==
    /\ InitStore
    /\ last = NoCall
    /\ calls = 0
    /\ rf = IdleFrames
    /\ InitAgent
    /\ faults = 0

NextTools == InvokeRefund \/ InvokeCancel \/ InvokeUpdateStatus \/ InvokeFetch

SpecTools == InitTools /\ [][NextTools]_vars

(***************************************************************************)
(* SpecRefund: two process_refund_for_order executions for the same order  *)
(* in flight at the same time, interleaved statement by statement.         *)
(***************************************************************************)
InitRefund ==
    /\ InitStore
    /\ last = NoCall
    /\ calls = 0
    /\ rf = [p \in Workers |-> RefundFrame("ORD1", "a@x.com")]
    /\ InitAgent
    /\ faults = 0

Step(p) ==
    /\ rf[p].pc # "done"
    /\ \E fault \in BOOLEAN, attr \in BOOLEAN, mail \in BOOLEAN :
          LET n == RefundStep(rf[p], World, fault, attr, mail)
          IN  /\ rf' = [rf EXCEPT ![p] = n.f]
              /\ Commit(n.w)
    /\ UNCHANGED <<last, calls, ct, agentVars>>

NextRefund == \E p \in Workers : Step(p)

SpecRefund == InitRefund /\ [][NextRefund]_vars

(***************************************************************************)
(* Spec: the chat endpoint handing requests, one at a time, to the one     *)
(* agent get_agent() keeps; CustomerSupportAgent.run split at the calls it *)
(* makes to its collaborators.  faults is 0 throughout Spec: every         *)
(* collaborator answers.                                                   *)
(***************************************************************************)
MaxTurns == 2

max_iterations == 2

\* what customers write
Utterances ==
    { <<"refund", "ORD1", "a@x.com">>,
      <<"refund">>,
      <<"manager">>,
      <<"manager", "refund", "ORD1", "a@x.com">>,
      <<"replace", "ORD1">>,
      <<"hello">> }

\* session_id of a ChatRequest; "" is none given
RequestSessions == {"", "s1"}

AskOrderNumber == <<"Could you provide your order number?">>

\* what the reasoning engine writes after "FINAL ANSWER:", or with no marker
\* and no action in it
AnswerTexts == {AskOrderNumber, <<"fetch_order", "Thanks!">>}

\* what the reasoning engine writes when asked for its final answer
SynthTexts ==
    {AskOrderNumber, <<"I'll use the fetch_order tool">> \o AskOrderNumber}

\* the {"action": ..., "action_input": ...} objects the reasoning engine writes
LLMActions ==
    { [tool |-> "process_refund_for_order", input |-> <<"ORD1", "a@x.com">>],
      [tool |-> "create_support_ticket",
       input |-> <<"issue", "ORD1", "a@x.com", "urgent">>],
      [tool |-> "update_order_status", input |-> <<"ORD1">>],
      [tool |-> "lookup_order", input |-> <<"ORD1">>] }

EscalationMessage(tid) ==
    <<"I've created a support ticket for you", tid, "Priority: High">>

PostEscalationMessage(tid) ==
    <<"I've created a support ticket for human assistance", tid>>

Apology == <<"I encountered an error while processing your request">>

\* log_agent_request(session_id, user_input, response, processing_time)
log_agent_request(a, sid, u, response) ==
    Append(a, [session_id |-> sid, user_input |-> u, response |-> response])

\* the environments a dispatched action may meet
ToolEnvs == {e \in Envs : (faults > 0 \/ e.fault = "none") /\ e.attr /\ e.mail}

Cost(env) == IF env.fault = "none" THEN 0 ELSE 1

\* one step of run: the new message log, audit log, tool_results, store and
\* turn
Turn(h, a, tr, w, tt, f) ==
    /\ history' = h
    /\ audit' = a
    /\ tool_results' = tr
    /\ Commit(w)
    /\ t' = tt
    /\ faults' = f
    /\ UNCHANGED <<session_id, turns, toolVars>>

Goto(pc) == Turn(history, audit, tool_results, World, [t EXCEPT !.pc = pc], faults)

Return(tt, text, outcome) ==
    [tt EXCEPT !.pc = "done", !.ret = text, !.outcome = outcome]

\* chat_endpoint for a request with session_id sid and message u, up to
\* agent.run and run's line 352: get_agent() gives the one agent of the
\* process, whose session is replaced only if the request names one
Accepted(sid, u) ==
    LET s == IF sid # "" THEN sid ELSE session_id
    IN  /\ session_id' = s
        /\ t' = [IdleTurn EXCEPT !.pc = "save_user", !.input = u,
                                 !.tk0 = Len(tickets),
                                 !.h0 = Len(history[s]),
                                 !.a0 = Len(audit), !.f0 = faults,
                                 !.st0 = StatusOf(World, "ORD1"),
                                 !.elig0 = Eligible(World, "ORD1")]
        /\ turns' = turns + 1
        /\ tool_results' = <<>>
        /\ UNCHANGED <<storeVars, calls, rf, ct, history, audit, faults>>

ChatRequest ==
    /\ t.pc \in {"idle", "done"}
    /\ turns < MaxTurns
    /\ \E sid \in RequestSessions, u \in Utterances : Accepted(sid, u)
    /\ UNCHANGED last

\* self.memory.add_message("user", user_input)
SaveUser ==
    /\ t.pc = "save_user"
    /\ Turn(add_message(history, session_id, "user", t.input), audit,
            tool_results, World, [t EXCEPT !.pc = "precheck"], faults)

\* a pre-check that files its ticket with priority medium
PreCheckTicket_medium(w, sid) ==
    create_ticket(w, sid, "explicit_request", "medium", "none")

\* a pre-check that files its ticket twice
PreCheckTicket_twice(w, sid) ==
    create_ticket(create_ticket(w, sid, "explicit_request", "high", "none"),
                  sid, "explicit_request", "high", "none")

\* the pre-check ticket
PreCheckTicket(w, sid) == create_ticket(w, sid, "explicit_request", "high", "none")

\* EscalationManager.should_escalate(user_input) and the escalation exit
PreCheck ==
    /\ t.pc = "precheck"
    /\ IF should_escalate(t.input, <<>>).esc
       THEN /\ Len(tickets) < MaxTickets
            /\ LET w1 == PreCheckTicket(World, session_id)
                   msg == EscalationMessage(LastTicketId(w1))
               IN  Turn(add_message(history, session_id, "assistant", msg),
                        log_agent_request(audit, session_id, t.input, msg),
                        tool_results, w1, Return(t, msg, "pre_escalation"), faults)
       ELSE Goto("context")

\* conversation_context = self.memory.get_context_string(limit=3)
Context ==
    /\ t.pc = "context"
    /\ Turn(history, audit, tool_results, World,
            [t EXCEPT !.pc = "refund",
                      !.ctx = get_context_string(history, session_id, 3)],
            faults)

\* a parameter searched in the utterance, then in context + utterance, then
\* in the last five stored messages
Resolve(S) ==
    ScanMessages(OrElse(FirstIn(t.input, S), t.ctx \o t.input, S),
                 get_history(history, session_id, 5), S)

\* the result says the executor raised or failed: the registry's own error
\* texts, an executor's error text, or an executor's refusal
Failed(res) ==
    \/ res[1] \in {"[x]", "[x-mojibake]"}
    \/ res[1] \in {"Error: Tool not found", "Error executing tool",
                   "Error searching FAQ", "'status': 'error'"}

\* the tool_results, store and turn after _execute_tool(name, input)
Dispatched(tt, tr, name, input, r) ==
    [tr |-> tr \o r.logged, w |-> r.w, res |-> r.res,
     tt |-> [tt EXCEPT !.acts = Append(@, name), !.outs = Append(@, r.res),
                       !.ins = Append(@, input),
                       !.fails = @ + (IF Failed(r.res) THEN 1 ELSE 0)]]

\* the exit of the refund and replacement fast paths
FastExit(d, outcome, f) ==
    Turn(add_message(add_message(history, session_id, "user", t.input),
                     session_id, "assistant", d.res),
         audit, d.tr, d.w, Return(d.tt, d.res, outcome), f)

RefundKeywords == {"refund", "proceed", "process"}

\* a detector that never finds both parameters
RefundReady_never(oid, email) == FALSE

\* if order_id_match and email_match
RefundReady(oid, email) == oid # "" /\ email # ""

\* proactive refund detection
RefundDetect ==
    /\ t.pc = "refund"
    /\ IF HasKeyword(t.input, RefundKeywords)
       THEN LET tt == [t EXCEPT !.oid = Resolve(OrderIds),
                                !.email = Resolve(Emails)]
            IN  IF RefundReady(tt.oid, tt.email)
                THEN \E env \in ToolEnvs :
                       LET r == _execute_tool(World, "process_refund_for_order",
                                              <<tt.oid, tt.email>>, env)
                           d == Dispatched(tt, tool_results,
                                           "process_refund_for_order",
                                           <<tt.oid, tt.email>>, r)
                       IN  FastExit(d, "fast_refund", faults - Cost(env))
                ELSE Turn(history, audit, tool_results, World,
                          [tt EXCEPT !.pc = "order"], faults)
       ELSE Goto("order")

\* order-related queries
OrderDetect ==
    /\ t.pc = "order"
    /\ IF HasKeyword(t.input, {"order", "ord", "where is my", "track"})
       THEN IF SearchOrderId(t.input) # ""
            THEN \E env \in ToolEnvs :
                   LET r == _execute_tool(World, "fetch_order",
                                          <<SearchOrderId(t.input)>>, env)
                       d == Dispatched(t, tool_results, "fetch_order",
                                       <<SearchOrderId(t.input)>>, r)
                   IN  Turn(history, audit, d.tr, d.w,
                            [d.tt EXCEPT !.pc = "repl",
                                         !.ch = Append(@, "Order Data")],
                            faults - Cost(env))
            ELSE Turn(history, audit, tool_results, World,
                      [t EXCEPT !.pc = "repl",
                                !.ch = Append(@, "INSTRUCTION order")], faults)
       ELSE Goto("repl")

ReplacementKeywords ==
    {"replacement", "replace", "defective", "wrong item", "damaged", "quality issue"}

\* the reason detected from keywords
Reason(text) ==
    IF HasKeyword(text, {"wrong item", "wrong product"}) THEN "wrong_item"
    ELSE IF HasKeyword(text, {"damaged", "broken"}) THEN "damaged_delivery"
    ELSE "defective_product"

\* The customers table and the customer_id column of orders, as seeded: a
\* value is its storage class and its text.
SqlInteger(v) == [ty |-> "integer", v |-> v]
SqlText(v) == [ty |-> "text", v |-> v]

Customers ==
    { [id |-> SqlInteger("1"), customer_id |-> SqlText("CUST001"),
       email |-> "a@x.com"] }

OrderCustomer == [o \in {"ORD1"} |-> SqlText("CUST001")]

Numerals == {"0", "1", "2"}

\* a = b between an INTEGER column and a TEXT column: the text is converted
\* when it reads as a number, and a text that does not is never equal
SqlEq(a, b) ==
    IF a.ty = b.ty THEN a.v = b.v
    ELSE /\ a.v = b.v
         /\ (IF a.ty = "text" THEN a.v ELSE b.v) \in Numerals

\* SELECT c.email FROM orders o LEFT JOIN customers c ON o.customer_id = c.id
\* WHERE o.order_id = ?  ("" for no row or NULL)
CustomerEmail(w, oid) ==
    IF oid \notin DOMAIN w.orders THEN ""
    ELSE LET rows == {c \in Customers : SqlEq(OrderCustomer[oid], c.id)}
         IN  IF rows = {} THEN "" ELSE (CHOOSE c \in rows : TRUE).email

\* the email searched in context + utterance, then in the stored messages
ConversationEmail ==
    ScanMessages(FirstIn(t.ctx \o t.input, Emails),
                 get_history(history, session_id, 5), Emails)

\* the email of the replacement: the one found in the conversation, else the
\* one the query on the order's customer returns, else the placeholder
ReplacementEmail(oid) ==
    IF ConversationEmail # "" THEN ConversationEmail
    ELSE IF CustomerEmail(World, oid) # "" THEN CustomerEmail(World, oid)
    ELSE "customer@example.com"

\* a replacement path that waits for an email as the refund path does
ReplacementReady_with_email(oid, email) == oid # "" /\ email # ""

\* if order_id_match
ReplacementReady(oid, email) == oid # ""

\* proactive replacement detection
ReplDetect ==
    /\ t.pc = "repl"
    /\ IF HasKeyword(t.input, ReplacementKeywords)
       THEN IF ReplacementReady(Resolve(OrderIds), ConversationEmail)
            THEN /\ Len(tickets) < MaxTickets
                 /\ \E env \in ToolEnvs :
                      LET in == <<Resolve(OrderIds),
                                  ReplacementEmail(Resolve(OrderIds)),
                                  Reason(t.input)>>
                          r == _execute_tool(World, "request_product_replacement",
                                             in, env)
                          d == Dispatched([t EXCEPT !.oid = Resolve(OrderIds),
                                                    !.email = ConversationEmail],
                                          tool_results,
                                          "request_product_replacement", in, r)
                      IN  FastExit(d, "fast_replacement", faults - Cost(env))
            ELSE Turn(history, audit, tool_results, World,
                      [t EXCEPT !.pc = "faq",
                                !.ch = Append(@, "INSTRUCTION replacement")],
                      faults)
       ELSE Goto("faq")

\* a refund-query check that matches nothing
RefundQueryKeywords_none == {}

RefundQueryKeywords == {"refund", "return", "money back"}

\* the FAQ searches and "Customer Question"
Faq ==
    /\ t.pc = "faq"
    /\ LET refund == HasKeyword(t.input, RefundQueryKeywords)
           label == IF refund THEN "Refund Policy" ELSE "FAQ Search Result"
       IN  IF refund \/ t.ch = <<>>
           THEN \E env \in ToolEnvs :
                  LET r == _execute_tool(World, "semantic_search_faq",
                                         <<"query">>, env)
                      d == Dispatched(t, tool_results, "semantic_search_faq",
                                      <<"query">>, r)
                  IN  Turn(history, audit, d.tr, d.w,
                           [d.tt EXCEPT !.pc = "loop", !.pre = d.tt.acts,
                                        !.ch = @ \o <<label, "Customer Question">>],
                           faults - Cost(env))
           ELSE Turn(history, audit, tool_results, World,
                     [t EXCEPT !.pc = "loop", !.pre = t.acts,
                               !.ch = Append(@, "Customer Question")], faults)

\* a loop that runs one iteration more
LoopContinues_inclusive(it) == it <= max_iterations

\* for iteration in range(max_iterations)
LoopContinues(it) == it < max_iterations

\* response = self.llm.invoke(full_prompt)
Invoked(tt) ==
    [tt EXCEPT !.it = @ + 1, !.llm = @ + 1, !.cycles = @ + 1]

\* the answer saved, logged and returned
Answer(tt, text, outcome) ==
    Turn(add_message(history, session_id, "assistant", text),
         log_agent_request(audit, session_id, t.input, text),
         tool_results, World, Return(tt, text, outcome), faults)

\* "FINAL ANSWER:" followed by an answer
ReasonFinal ==
    /\ t.pc = "loop"
    /\ LoopContinues(t.it)
    /\ \E text \in AnswerTexts :
          Answer([Invoked(t) EXCEPT !.only_actions = FALSE, !.raw = text],
                 _clean_response(text), "final")

\* "FINAL ANSWER:" followed by nothing or by "{": continue
ReasonPremature ==
    /\ t.pc = "loop"
    /\ LoopContinues(t.it)
    /\ Turn(history, audit, tool_results, World,
            [Invoked(t) EXCEPT !.only_actions = FALSE], faults)

\* a loop that leaves the result out of the history
Folded_dropped(tt, res) == tt

\* conversation_history.append("Tool Used: ... Tool Result: {tool_result}")
Folded(tt, res) ==
    [tt EXCEPT !.ch = Append(@, "Tool Used"), !.fed = Append(@, res)]

\* an action parsed from the response and executed
ReasonAction ==
    /\ t.pc = "loop"
    /\ LoopContinues(t.it)
    /\ \E a \in LLMActions, env \in ToolEnvs :
          /\ a.tool = "create_support_ticket" => Len(tickets) < MaxTickets
          /\ LET r == _execute_tool(World, a.tool, a.input, env)
                 d == Dispatched(Invoked(t), tool_results, a.tool, a.input, r)
             IN  Turn(history, audit, d.tr, d.w, Folded(d.tt, d.res),
                      faults - Cost(env))

\* neither marker nor action: the response is the answer
ReasonPlain ==
    /\ t.pc = "loop"
    /\ LoopContinues(t.it)
    /\ \E text \in {AskOrderNumber} :
          Answer([Invoked(t) EXCEPT !.only_actions = FALSE, !.raw = text],
                 _clean_response(text), "plain")

\* a check after the loop that files its ticket like the pre-check does
PostCheckTicket_high(w, sid) ==
    create_ticket(w, sid, "complex_query", "high", "none")

\* the ticket of the check after the loop
PostCheckTicket(w, sid) == create_ticket(w, sid, "complex_query", "medium", "0.2")

\* should_escalate(user_input, tool_results=self.tool_results) after the loop
PostCheck ==
    /\ t.pc = "loop"
    /\ ~LoopContinues(t.it)
    /\ IF should_escalate(t.input, tool_results).esc
       THEN /\ Len(tickets) < MaxTickets
            /\ LET w1 == PostCheckTicket(World, session_id)
                   msg == PostEscalationMessage(LastTicketId(w1))
               IN  Turn(add_message(history, session_id, "assistant", msg),
                        log_agent_request(audit, session_id, t.input, msg),
                        tool_results, w1, Return(t, msg, "post_escalation"), faults)
       ELSE Goto("synth")

\* final_response = self.llm.invoke(final_prompt)
Synth ==
    /\ t.pc = "synth"
    /\ \E text \in SynthTexts :
          Answer([t EXCEPT !.llm = @ + 1, !.raw = text],
                 _clean_response(text), "synth")

Next ==
    \/ ChatRequest
    \/ SaveUser
    \/ PreCheck
    \/ Context
    \/ RefundDetect
    \/ OrderDetect
    \/ ReplDetect
    \/ Faq
    \/ ReasonFinal
    \/ ReasonPremature
    \/ ReasonAction
    \/ ReasonPlain
    \/ PostCheck
    \/ Synth

\* the store of the agent's runs
InitAgentStore ==
    /\ orders = [o \in {"ORD1"} |-> "delivered"]
    /\ \E sc \in PayScenarios :
          /\ sc.db \in {"none", "succeeded"}
          /\ sc.pi = Intent("succeeded", "USD", 5000) \/ sc.db = "none"
          /\ pay = sc.db
          /\ stripe = sc.pi
    /\ tickets = <<>>

Init ==
    /\ InitAgentStore
    /\ last = NoCall
    /\ calls = 0
    /\ rf = IdleFrames
    /\ InitAgent
    /\ faults = 0

Spec == Init /\ [][Next]_vars

(***************************************************************************)
(* SpecLoop: one turn whose reasoning loop reads what the reasoning engine *)
(* wrote.  A response is a text; the loop looks for the marker, then for   *)
(* an action object, and takes what is left as the answer.                 *)
(***************************************************************************)
Marker == "FINAL ANSWER:"

MixedMarker == "Final Answer:"

RefundJson ==
    "{\"action\": \"process_refund_for_order\", \"action_input\": \"ORD1|a@x.com\"}"

UnknownJson == "{\"action\": \"lookup_order\", \"action_input\": \"ORD1\"}"

NoInputJson == "{\"action\": \"fetch_order\"}"

\* an object with the word, and no key, "action"
KeylessJson == "{\"tool\": \"action\"}"

\* braces and the word, and no JSON
BadJson == "{\"action\": fetch_order}"

\* an object the pattern does not match
QuotedJson == "{'action': 'fetch_order'}"

\* str.upper() of a token
Upper(tok) == IF tok = MixedMarker THEN Marker ELSE tok

\* a marker test that is as exact as the split
HasMarker_exact(response) == \E i \in DOMAIN response : response[i] = Marker

\* "FINAL ANSWER:" in response_text.upper()
HasMarker(response) == \E i \in DOMAIN response : Upper(response[i]) = Marker

\* response_text.split("FINAL ANSWER:")[-1]
AfterMarker(response) ==
    LET at == {i \in DOMAIN response : response[i] = Marker}
    IN  IF at = {} THEN response
        ELSE SubSeq(response, (CHOOSE i \in at : \A j \in at : j <= i) + 1,
                    Len(response))

\* the tokens that start with "{"
BraceTokens ==
    {RefundJson, UnknownJson, NoInputJson, KeylessJson, BadJson, QuotedJson}

\* a test that lets an answer of nothing through
Premature_brace_only(final_answer) ==
    final_answer # <<>> /\ Head(final_answer) \in BraceTokens

\* if not final_answer or final_answer.startswith("{")
Premature(final_answer) ==
    final_answer = <<>> \/ Head(final_answer) \in BraceTokens

\* the tokens r'\{[^}]*"action"[^}]*\}' matches
ActionShaped == {RefundJson, UnknownJson, NoInputJson, KeylessJson, BadJson}

NoAction == [action |-> "", action_input |-> NoText, keyed |-> FALSE]

\* json.loads of a token; a JSONDecodeError is caught and makes None
json_loads(tok) ==
    CASE tok = RefundJson ->
            [action |-> "process_refund_for_order",
             action_input |-> <<"ORD1", "a@x.com">>, keyed |-> TRUE]
      [] tok = UnknownJson ->
            [action |-> "lookup_order", action_input |-> <<"ORD1">>,
             keyed |-> TRUE]
      [] tok = NoInputJson ->
            [action |-> "fetch_order", action_input |-> <<"">>,
             keyed |-> TRUE]
      [] OTHER -> NoAction

\* a parser that takes any token in braces for a request of lookup_order
_parse_action_eager(text) ==
    IF FirstIn(text, BraceTokens) = "" THEN NoAction
    ELSE [action |-> "lookup_order", action_input |-> <<"ORD1">>, keyed |-> TRUE]

\* the first match of the pattern, parsed; keyed: "action" is a key of it
_parse_action(text) ==
    LET m == FirstIn(text, ActionShaped)
    IN  IF m = "" THEN NoAction ELSE json_loads(m)

\* what the reasoning engine writes
LoopResponses ==
    { <<Marker>> \o AskOrderNumber,
      <<"Let me check", Marker, " ">> \o AskOrderNumber,
      <<Marker>>,
      <<Marker, " ">>,
      <<Marker, RefundJson>>,
      <<MixedMarker>>,
      <<MixedMarker, RefundJson>>,
      <<RefundJson>>,
      <<"Let me check", UnknownJson>>,
      <<NoInputJson>>,
      <<BadJson>>,
      <<KeylessJson>>,
      <<QuotedJson>> \o AskOrderNumber,
      AskOrderNumber }

LoopUtterances == {<<"hello">>, <<"refund">>}

\* chat_endpoint up to agent.run, once, with no session_id in the request
LoopRequest ==
    /\ t.pc = "idle"
    /\ turns = 0
    /\ \E u \in LoopUtterances :
          t' = [IdleTurn EXCEPT !.pc = "save_user", !.input = u,
                                !.tk0 = Len(tickets),
                                !.h0 = Len(history[session_id]),
                                !.a0 = Len(audit), !.f0 = faults,
                                !.st0 = StatusOf(World, "ORD1"),
                                !.elig0 = Eligible(World, "ORD1")]
    /\ turns' = turns + 1
    /\ tool_results' = <<>>
    /\ UNCHANGED <<storeVars, toolVars, history, audit, faults, session_id>>

\* one iteration of the loop over what the reasoning engine wrote
Iteration ==
    /\ t.pc = "loop"
    /\ LoopContinues(t.it)
    /\ \E response \in LoopResponses :
          LET tt == [Invoked(t) EXCEPT !.resp = response]
              final_answer == strip(AfterMarker(response))
              action == _parse_action(response)
          IN  IF HasMarker(response)
              THEN IF Premature(final_answer)
                   THEN Turn(history, audit, tool_results, World,
                             [tt EXCEPT !.only_actions = FALSE], faults)
                   ELSE Answer([tt EXCEPT !.only_actions = FALSE,
                                          !.raw = final_answer],
                               _clean_response(final_answer), "final")
              ELSE IF action.keyed
                   THEN \E env \in ToolEnvs :
                          LET r == _execute_tool(World, action.action,
                                                 action.action_input, env)
                              d == Dispatched(tt, tool_results, action.action,
                                              action.action_input, r)
                          IN  Turn(history, audit, d.tr, d.w,
                                   Folded(d.tt, d.res), faults - Cost(env))
                   ELSE Answer([tt EXCEPT !.only_actions = FALSE,
                                          !.raw = response],
                               _clean_response(response), "plain")

NextLoop ==
    \/ LoopRequest
    \/ SaveUser
    \/ PreCheck
    \/ Context
    \/ RefundDetect
    \/ OrderDetect
    \/ ReplDetect
    \/ Faq
    \/ Iteration
    \/ PostCheck
    \/ Synth

SpecLoop == Init /\ [][NextLoop]_vars

\* the request handler runs to its return once it has begun: every step of
\* the turn that is enabled is taken in the end
SpecLoopFair == SpecLoop /\ WF_vars(NextLoop)

(***************************************************************************)
(* SpecSession: requests that name a session and requests that name none,  *)
(* one after the other, with what each request named kept beside the       *)
(* agent's state.                                                          *)
(***************************************************************************)
SessionUtterances == {<<"hello">>, <<"refund", "ORD1", "a@x.com">>}

SessionRequest ==
    /\ t.pc \in {"idle", "done"}
    /\ turns < MaxTurns
    /\ \E sid \in RequestSessions, u \in SessionUtterances :
          /\ Accepted(sid, u)
          /\ last' = [tool |-> "chat_endpoint", session_id |-> sid,
                      logs |-> history]

NextSession ==
    \/ SessionRequest
    \/ SaveUser
    \/ PreCheck
    \/ Context
    \/ RefundDetect
    \/ OrderDetect
    \/ ReplDetect
    \/ Faq
    \/ ReasonFinal
    \/ ReasonPremature
    \/ ReasonAction
    \/ ReasonPlain
    \/ PostCheck
    \/ Synth

SpecSession == Init /\ [][NextSession]_vars

(***************************************************************************)
(* SpecFastPath: one turn up to the end of its fast path, in a session     *)
(* whose log already holds messages, with utterances that carry, or lack,  *)
(* each parameter.                                                         *)
(***************************************************************************)
MaxLog == 2

\* what the earlier messages of the session say
PriorTexts == {<<"hello">>, <<"ORD2">>, <<"b@y.com">>}

PriorLogs ==
    UNION { { [i \in 1..n |-> Msg(IF i % 2 = 1 THEN "user" ELSE "assistant", c[i])]
               : c \in [1..n -> PriorTexts] } : n \in 0..MaxLog }

FastUtterances ==
    { <<"replace">>, <<"replace", "ORD1">>, <<"replace", "ORD1", "a@x.com">>,
      <<"refund">>, <<"refund", "ORD1">>, <<"refund", "a@x.com">>,
      <<"refund", "ORD1", "a@x.com">>, <<"refund", "replace", "ORD1">>,
      <<"manager", "replace", "ORD1">>, <<"hello">> }

InitFastPath ==
    /\ InitAgentStore
    /\ last = NoCall
    /\ calls = 0
    /\ rf = IdleFrames
    /\ ct = [p \in {1, 2} |-> IdleRun]
    /\ \E log \in PriorLogs :
          history = [s \in Sessions |-> IF s = DefaultSession THEN log ELSE <<>>]
    /\ audit = <<>>
    /\ session_id = DefaultSession
    /\ tool_results = <<>>
    /\ t = IdleTurn
    /\ turns = 0
    /\ faults = 0

\* chat_endpoint up to agent.run, once, with no session_id in the request
FastRequest ==
    /\ t.pc = "idle"
    /\ turns = 0
    /\ \E u \in FastUtterances :
          t' = [IdleTurn EXCEPT !.pc = "save_user", !.input = u,
                                !.tk0 = Len(tickets),
                                !.h0 = Len(history[session_id]),
                                !.a0 = Len(audit), !.f0 = faults,
                                !.st0 = StatusOf(World, "ORD1"),
                                !.elig0 = Eligible(World, "ORD1")]
    /\ turns' = turns + 1
    /\ tool_results' = <<>>
    /\ UNCHANGED <<storeVars, toolVars, history, audit, faults, session_id>>

NextFastPath ==
    \/ FastRequest
    \/ SaveUser
    \/ PreCheck
    \/ Context
    \/ RefundDetect
    \/ OrderDetect
    \/ ReplDetect

SpecFastPath == InitFastPath /\ [][NextFastPath]_vars

(***************************************************************************)
(* SpecFaults: the same agent with collaborators that fail, at most        *)
(* MaxFaults times in a run.  A failure inside a dispatched action is the  *)
(* env of its _execute_tool; a failure of a call run makes itself (the     *)
(* message store, the ticket store, the reasoning engine) raises inside    *)
(* run's try block.                                                        *)
(***************************************************************************)
MaxFaults == 2

\* the steps of run at which a call of run's own to a collaborator is next
CanRaise ==
    \/ t.pc \in {"save_user", "context", "synth"}
    \/ t.pc = "precheck" /\ should_escalate(t.input, <<>>).esc
    \/ t.pc = "refund" /\ HasKeyword(t.input, RefundKeywords)
    \/ t.pc = "repl" /\ HasKeyword(t.input, ReplacementKeywords)
    \/ t.pc = "loop"
          /\ (LoopContinues(t.it) \/ should_escalate(t.input, tool_results).esc)

\* an exception raised inside the try block
Raise ==
    /\ faults > 0
    /\ CanRaise
    /\ Turn(history, audit, tool_results, World, [t EXCEPT !.pc = "except"],
            faults - 1)

\* except Exception: the apology saved and returned, unless saving it raises
Except ==
    /\ t.pc = "except"
    /\ \E saved \in {TRUE} \cup {f \in {FALSE} : faults > 0} :
          IF saved
          THEN Turn(add_message(history, session_id, "assistant", Apology),
                    audit, tool_results, World, Return(t, Apology, "error"), faults)
          ELSE Turn(history, audit, tool_results, World,
                    Return(t, NoText, "raised"), faults - 1)

NextFaults == Next \/ Raise \/ Except

InitFaults ==
    /\ InitAgentStore
    /\ last = NoCall
    /\ calls = 0
    /\ rf = IdleFrames
    /\ InitAgent
    /\ faults = MaxFaults

SpecFaults == InitFaults /\ [][NextFaults]_vars

(***************************************************************************)
(* SpecEscalate: EscalationManager.should_escalate called on its own, with *)
(* queries and result lists of every kind.                                 *)
(***************************************************************************)
MaxResults == 3

Queries ==
    { <<"hello">>, <<"manager">>, <<"legal">>, <<"attorney">>,
      <<"attorney", "manager">>, <<"refund", "ORD1">> }

\* results as the executors and the registry write them
ResultTexts ==
    { R_NotFound("ORD1"), ToolError("update_order_status"),
      <<"[x-mojibake]", "Error creating support ticket", "exc">>,
      <<"FAQ entries">> }

ResultLists == UNION {[1..n -> ResultTexts] : n \in 0..MaxResults}

CallShouldEscalate ==
    /\ \E q \in Queries, rs \in ResultLists :
          last' = [tool |-> "should_escalate", query |-> q, results |-> rs,
                   out |-> should_escalate(q, rs)]
    /\ UNCHANGED <<storeVars, calls, rf, ct, agentVars>>

NextEscalate == CallShouldEscalate

SpecEscalate == Init /\ [][NextEscalate]_vars

(***************************************************************************)
(* SpecConcurrent: two callers inside run at the same time on the agent    *)
(* get_agent() returns to both, interleaved at the calls run makes.  The   *)
(* run of a caller is cut down to what touches self.tool_results: the      *)
(* reset, the actions of the loop, the check after the loop.               *)
(***************************************************************************)
Callers == {1, 2}

\* self.tool_results = []
RunStart(p) ==
    /\ ct[p].pc = "idle"
    /\ tool_results' = <<>>
    /\ ct' = [ct EXCEPT ![p] = [IdleRun EXCEPT !.pc = "loop", !.input = <<"hello">>]]
    /\ UNCHANGED <<storeVars, last, calls, rf, history, audit, session_id, t,
                   turns, faults>>

\* one iteration: an action parsed from the response and executed
RunAction(p) ==
    /\ ct[p].pc = "loop"
    /\ LoopContinues(ct[p].it)
    /\ \E a \in LLMActions, env \in ToolEnvs :
          /\ a.tool = "create_support_ticket" => Len(tickets) < MaxTickets
          /\ LET r == _execute_tool(World, a.tool, a.input, env)
             IN  /\ tool_results' = tool_results \o r.logged
                 /\ ct' = [ct EXCEPT ![p].it = @ + 1, ![p].own = @ \o r.logged]
                 /\ Commit(r.w)
    /\ UNCHANGED <<last, calls, rf, history, audit, session_id, t, turns, faults>>

\* should_escalate(user_input, tool_results=self.tool_results)
RunPostCheck(p) ==
    /\ ct[p].pc = "loop"
    /\ ~LoopContinues(ct[p].it)
    /\ ct' = [ct EXCEPT ![p].pc = "done", ![p].seen = tool_results,
                        ![p].escalated =
                           should_escalate(ct[p].input, tool_results).esc]
    /\ UNCHANGED <<storeVars, last, calls, rf, history, audit, session_id,
                   tool_results, t, turns, faults>>

NextConcurrent ==
    \E p \in Callers : RunStart(p) \/ RunAction(p) \/ RunPostCheck(p)

SpecConcurrent == Init /\ [][NextConcurrent]_vars

(***************************************************************************)
(* SpecNotify: the two actions that notify, invoked directly, with what    *)
(* the environment decided during the call kept beside the result.         *)
(***************************************************************************)
Notified(tool, oid, w, r, env) ==
    [tool |-> tool, oid |-> oid, res |-> r.res,
     before |-> StatusOf(w, oid), after |-> StatusOf(r.w, oid),
     refundsBefore |-> w.stripe.refunds, refundsAfter |-> r.w.stripe.refunds,
     ticketsBefore |-> Len(w.tickets), ticketsAfter |-> Len(r.w.tickets),
     fault |-> env.fault, mail |-> env.mail]

FinishNotified(tool, oid, r, env) ==
    /\ calls < MaxCalls
    /\ calls' = calls + 1
    /\ last' = Notified(tool, oid, World, r, env)
    /\ Commit(r.w)
    /\ UNCHANGED <<rf, ct, agentVars>>

CallRefund ==
    \E oid \in OrderIds, email \in Emails, env \in Envs :
        FinishNotified("process_refund_for_order", oid,
                       process_refund_for_order(World, oid, email, env), env)

CallReplacement ==
    /\ Len(tickets) < MaxTickets
    /\ \E oid \in OrderIds, email \in Emails, env \in Envs :
          FinishNotified("request_product_replacement", oid,
                         request_product_replacement(World, <<oid, email>>, env),
                         env)

NextNotify == CallRefund \/ CallReplacement

SpecNotify == InitTools /\ [][NextNotify]_vars

(***************************************************************************)
(* SpecClean: _clean_response applied to the texts over a small alphabet   *)
(* (two internal phrases, a short and a long plain sentence, a space, a    *)
(* newline), and applied again to its own result.                          *)
(***************************************************************************)
MaxTextLen == 4

ResponseTokens ==
    TechnicalTokens \cup Blank \cup {"Thanks!", "Could you provide your order number?"}

Responses == UNION {[1..n -> ResponseTokens] : n \in 0..MaxTextLen}

\* the text the reasoning engine produced, not yet sanitized
InitClean ==
    /\ InitAgentStore
    /\ \E response \in Responses :
          last = [tool |-> "response", response |-> response, cleaned |-> NoText,
                  out |-> NoText, again |-> NoText]
    /\ calls = 0
    /\ rf = IdleFrames
    /\ InitAgent
    /\ faults = 0

CallCleanResponse ==
    /\ last.tool = "response"
    /\ last' = [tool |-> "_clean_response", response |-> last.response,
                cleaned |-> Sanitized(last.response),
                out |-> _clean_response(last.response),
                again |-> _clean_response(_clean_response(last.response))]
    /\ UNCHANGED <<storeVars, calls, rf, ct, agentVars>>

NextClean == CallCleanResponse

SpecClean == InitClean /\ [][NextClean]_vars

(***************************************************************************)
(* SpecRegistry: _execute_tool called with every name, registered or not,  *)
(* and inputs of every shape, with collaborators that may fail; and        *)
(* resolve_ticket called by the support staff between the calls.           *)
(***************************************************************************)
RegistryNames == ToolNames \cup {"lookup_order", ""}

RegistryInputs ==
    { <<"">>, <<"ORD1">>, <<"ORD2">>, <<"ORD1", "a@x.com">>, <<"ORD1", "">>,
      <<"ORD1", "a@x.com", "damaged", "asap", "more">> }

\* the collaborators may raise at any step
RegistryEnvs == {e \in Envs : e.attr /\ e.mail}

ExecuteTool ==
    /\ calls < MaxCalls
    /\ \E name \in RegistryNames, input \in RegistryInputs, env \in RegistryEnvs :
          /\ name \in {"create_support_ticket", "request_product_replacement"}
                => Len(tickets) < MaxTickets
          /\ LET r == _execute_tool(World, name, input, env)
             IN  /\ last' = [tool |-> "_execute_tool", name |-> name,
                             input |-> input, res |-> r.res, raised |-> r.raised,
                             wBefore |-> World, wAfter |-> r.w]
                 /\ Commit(r.w)
    /\ calls' = calls + 1
    /\ UNCHANGED <<rf, ct, agentVars>>

\* ids of the tickets the store can hold, and one it never holds
TicketIds == {TicketTok(n) : n \in 1..(MaxTickets + 1)}

ResolveTicket ==
    /\ calls < MaxCalls
    /\ \E tid \in TicketIds :
          LET r == resolve_ticket(World, tid)
          IN  /\ last' = [tool |-> "resolve_ticket", id |-> tid, ok |-> r.ok,
                          wBefore |-> World, wAfter |-> r.w]
              /\ Commit(r.w)
    /\ calls' = calls + 1
    /\ UNCHANGED <<rf, ct, agentVars>>

NextRegistry == ExecuteTool \/ ResolveTicket

SpecRegistry == Init /\ [][NextRegistry]_vars

(***************************************************************************)
(* Claims about the actions.                                               *)
(***************************************************************************)
Rank(st) == CHOOSE i \in 1..Len(Progression) : Progression[i] = st

InProgression(st) == \E i \in 1..Len(Progression) : Progression[i] = st

\* C1: a process_refund_for_order request for an order whose stored status is
\* already refunded returns a rejection, creates no refund at the payment
\* processor and leaves the stored status refunded; and no sequence of refund
\* requests gets more than one refund of the order created.
C1_RefundedOrderIsRejected ==
    /\ (last.tool = "process_refund_for_order" /\ last.before = "refunded")
          => /\ ~IsRefundOk(last.res)
             /\ last.refundsAfter = last.refundsBefore
             /\ last.after = "refunded"
    /\ stripe.refunds <= 1

\* C2: of two process_refund_for_order executions in flight for the same
\* order, the precondition check lets at most one through to the processor:
\* at most one sends a refund creation, at most one gets a refund created,
\* at most one returns success.
C2_CheckPreventsDoubleRefund ==
    /\ Cardinality({p \in Workers : rf[p].asked}) <= 1
    /\ Cardinality({p \in Workers : rf[p].created}) <= 1
    /\ Cardinality({p \in Workers : IsRefundOk(rf[p].result)}) <= 1

\* C7: no action changes the status of an order that is cancelled or
\* refunded, and no action moves a status backwards along
\* pending, processing, shipped, delivered.
C7_StatusOneWay ==
    last.tool # "none" =>
        /\ last.before \in {"cancelled", "refunded"} => last.after = last.before
        /\ (InProgression(last.before) /\ InProgression(last.after))
              => Rank(last.after) >= Rank(last.before)

(***************************************************************************)
(* Claims about a turn of the agent.                                       *)
(***************************************************************************)
Done == t.pc = "done"

Count(seq, x) == Cardinality({i \in 1..Len(seq) : seq[i] = x})

Contains(text, tok) == \E i \in 1..Len(text) : text[i] = tok

\* the session's message log
Log == history[session_id]

\* the utterance has refund keywords, an order id and an email in it
CompleteRefundUtterance ==
    /\ HasKeyword(t.input, RefundKeywords)
    /\ SearchOrderId(t.input) # ""
    /\ SearchEmail(t.input) # ""

RefundOnceNoEngine ==
    /\ Count(t.acts, "process_refund_for_order") = 1
    /\ t.llm = 0

\* C3 (as stated): a turn whose utterance has refund keywords, an order id and
\* an email dispatches the refund action exactly once and calls the reasoning
\* engine not at all.
C3_CompleteRefundDispatchedOnce ==
    (Done /\ CompleteRefundUtterance) => RefundOnceNoEngine

\* C3 (amended): a turn whose utterance has refund keywords, an order id and
\* an email, and nothing in it that makes the pre-check escalate, dispatches
\* the refund action exactly once and calls the reasoning engine not at all;
\* if the pre-check escalates, the turn dispatches no action and calls the
\* reasoning engine not at all.
C3_CompleteRefundDispatchedOnceUnlessEscalated ==
    (Done /\ CompleteRefundUtterance) =>
        IF should_escalate(t.input, <<>>).esc
        THEN t.acts = <<>> /\ t.llm = 0 /\ t.outcome = "pre_escalation"
        ELSE RefundOnceNoEngine /\ t.outcome = "fast_refund"

C3_Witness ==
    /\ Done
    /\ t.input = <<"refund", "ORD1", "a@x.com">>
    /\ t.outcome = "fast_refund"
    /\ IsRefundOk(t.ret)

\* C4: a turn whose utterance has an explicit escalation keyword creates
\* exactly one ticket, of priority high, and returns a message with that
\* ticket's id in it, whether or not an order id or an email is in the
\* utterance.
C4_EscalationKeywordOneHighTicket ==
    (Done /\ HasKeyword(t.input, escalation_keywords)) =>
        /\ Len(tickets) = t.tk0 + 1
        /\ tickets[Len(tickets)].priority = "high"
        /\ Contains(t.ret, tickets[Len(tickets)].id)

C4_Witness ==
    /\ Done
    /\ t.input = <<"manager", "refund", "ORD1", "a@x.com">>
    /\ t.tk0 = 1
    /\ Len(tickets) = 2
    /\ Contains(t.ret, TicketTok(2))

\* C5: no turn runs more than max_iterations reasoning cycles, and a turn
\* whose every reasoning cycle got an action request ends after exactly
\* max_iterations cycles with the escalation message or the synthesized
\* answer.
C5_LoopStopsAtCap ==
    /\ t.cycles <= max_iterations
    /\ (Done /\ t.cycles > 0 /\ t.only_actions) =>
          /\ t.cycles = max_iterations
          /\ t.outcome \in {"post_escalation", "synth"}
          /\ t.llm = max_iterations + (IF t.outcome = "synth" THEN 1 ELSE 0)

C5_Witness ==
    /\ Done
    /\ t.only_actions
    /\ t.cycles = max_iterations
    /\ t.outcome = "post_escalation"
    /\ Count(t.acts, "update_order_status") >= 2

\* C6: a turn in which a collaborator failed returns the generic apology and
\* raises no exception out of run.
C6_FailureEndsInApology ==
    (Done /\ faults < t.f0) => (t.outcome # "raised" /\ t.ret = Apology)

\* C8: when a turn returns, the returned text is the last message of the
\* session's log, as the assistant's, and one audit entry with the utterance
\* and the returned text has been recorded in the turn.
C8_EveryExitSavesAndLogs ==
    Done =>
        /\ Len(Log) > 0
        /\ Log[Len(Log)] = Msg("assistant", t.ret)
        /\ Len(audit) = t.a0 + 1
        /\ audit[Len(audit)] =
              [session_id |-> session_id, user_input |-> t.input, response |-> t.ret]

\* C9: a turn, whichever path served it, extends the session's log by the
\* utterance as one user message followed by the returned text as one
\* assistant message, so the log alternates user and assistant messages.
C9_OneUserOneAssistantPerTurn ==
    Done =>
        /\ Len(Log) = t.h0 + 2
        /\ Log[Len(Log) - 1] = Msg("user", t.input)
        /\ Log[Len(Log)] = Msg("assistant", t.ret)
        /\ \A i \in 1..Len(Log) :
              Log[i].role = (IF i % 2 = 1 THEN "user" ELSE "assistant")

\* a refund-keyword utterance with no order id found in the utterance, the
\* context or the stored messages
RefundWithoutOrder ==
    /\ HasKeyword(t.input, RefundKeywords)
    /\ ~should_escalate(t.input, <<>>).esc
    /\ t.oid = ""

ReachedCap == Done /\ t.outcome \in {"post_escalation", "synth"}

\* C12: a turn that reaches the iteration cap after two or more action
\* dispatches that raised or returned a failure, whatever the failure texts
\* say, is escalated by the check after the loop.
C12_TwoFailuresEscalate ==
    (ReachedCap /\ t.fails >= 2) => t.outcome = "post_escalation"

\* should_escalate has been called
Escalated == last.tool = "should_escalate"

\* the number of results with an error marker in them: the word "error" in
\* any case, or the mark the ticket actions put before their error texts
MarkedResults(rs) ==
    Cardinality({i \in 1..Len(rs) :
                   \E j \in 1..Len(rs[i]) :
                      rs[i][j] \in ErrorWordTokens \/ rs[i][j] = "[x-mojibake]"})

\* C13: should_escalate answers with the first trigger that matches, in the
\* order explicit-request keyword, two or more results with an error marker,
\* legal/contractual keyword, and with (false, "") if none matches.
C13_FirstTriggerDecides ==
    Escalated =>
        last.out =
           (IF HasKeyword(last.query, escalation_keywords)
            THEN [esc |-> TRUE, reason |-> "Customer explicitly requested"]
            ELSE IF MarkedResults(last.results) >= 2
            THEN [esc |-> TRUE, reason |-> "Multiple tool failures detected"]
            ELSE IF HasKeyword(last.query, complex_keywords)
            THEN [esc |-> TRUE, reason |-> "Complex legal/contractual query detected"]
            ELSE [esc |-> FALSE, reason |-> ""])

C13_Witness ==
    /\ Escalated
    /\ last.query = <<"attorney">>
    /\ MarkedResults(last.results) = 2
    /\ Len(last.results) = 3
    /\ last.out.reason = "Multiple tool failures detected"

\* the tickets the actions requested by the reasoning engine created
LoopTickets == Count(t.acts, "create_support_ticket")

\* C14: a turn that reaches the iteration cap ends in exactly one of two
\* ways.  If the check over the turn's action results triggers: one ticket,
\* priority medium, confidence 0.2, the escalation message with its id, and
\* no reasoning-engine call after the loop.  Otherwise: no ticket, one more
\* reasoning-engine call, and its sanitized output as the reply.
C14_CapEndsInTicketOrSynthesis ==
    ReachedCap =>
        IF should_escalate(t.input, tool_results).esc
        THEN /\ t.outcome = "post_escalation"
             /\ Len(tickets) = t.tk0 + LoopTickets + 1
             /\ tickets[Len(tickets)].priority = "medium"
             /\ tickets[Len(tickets)].confidence = "0.2"
             /\ t.ret = PostEscalationMessage(tickets[Len(tickets)].id)
             /\ t.llm = t.cycles
        ELSE /\ t.outcome = "synth"
             /\ Len(tickets) = t.tk0 + LoopTickets
             /\ t.llm = t.cycles + 1
             /\ t.ret = _clean_response(t.raw)

C14_Witness ==
    /\ ReachedCap
    /\ t.outcome = "synth"
    /\ LoopTickets = 1
    /\ t.raw # t.ret
    /\ t.ret = AskOrderNumber

\* C15: the action results the check after the loop evaluates for a caller
\* are exactly the results of the actions dispatched in that caller's turn,
\* however the two turns interleave.
C15_TranscriptIsTurnLocal ==
    \A p \in Callers :
        ct[p].pc = "done" =>
            /\ ct[p].seen = ct[p].own
            /\ ct[p].escalated = should_escalate(ct[p].input, ct[p].own).esc

\* the turn is in or past the reasoning loop
InLoop ==
    \/ t.pc \in {"loop", "synth"}
    \/ Done /\ t.outcome \in {"final", "plain", "post_escalation", "synth"}

\* the results of the actions the loop dispatched, in order
LoopResults == SubSeq(t.outs, Len(t.pre) + 1, Len(t.outs))

\* C16: in a turn the loop has dispatched at most one action per reasoning
\* cycle, and whenever a reasoning-engine call can be issued the result of
\* every action dispatched so far is in the history the prompt is built from,
\* in the order of the dispatches.
C16_ActionsSequentialAndFolded ==
    InLoop =>
        /\ Len(LoopResults) <= t.cycles
        /\ t.fed = LoopResults
        /\ Count(t.ch, "Tool Used") = Len(LoopResults)

C16_Witness ==
    /\ t.pc = "loop"
    /\ LoopContinues(t.it)
    /\ t.cycles = 1
    /\ t.acts = <<"semantic_search_faq", "process_refund_for_order">>
    /\ Len(t.fed) = 1
    /\ IsRefundOk(t.fed[1])

\* C17: _execute_tool, whatever the name and the input, returns a text and
\* lets no exception out; for a name that is not registered the text is the
\* not-found error and the store is as it was.
C17_RegistryNeverRaises ==
    last.tool = "_execute_tool" =>
        /\ ~last.raised
        /\ Len(last.res) > 0
        /\ last.name \notin ToolNames =>
              /\ last.res = <<"Error: Tool not found", last.name>>
              /\ last.wAfter = last.wBefore

C17_Witness ==
    /\ last.tool = "_execute_tool"
    /\ last.name = "process_refund_for_order"
    /\ last.input = <<"ORD1">>
    /\ last.res = ToolError("process_refund_for_order")

Priorities == {"low", "medium", "high", "urgent"}

\* C19: every stored ticket has a priority among low, medium, high and
\* urgent and a status among open and resolved, the tickets written by
\* create_support_ticket from a delimited input included.
C19_TicketFieldsInDomain ==
    \A i \in 1..Len(tickets) :
        /\ tickets[i].priority \in Priorities
        /\ tickets[i].status \in {"open", "resolved"}

\* C20: no step removes a ticket; a stored ticket is changed only by
\* resolve_ticket, which sets its status to resolved; a resolved ticket stays
\* resolved; resolve_ticket with an id that is not stored returns false and
\* leaves the store as it was.
C20_TicketsOnlyResolved ==
    [][ /\ Len(tickets') >= Len(tickets)
        /\ \A i \in 1..Len(tickets) :
              /\ \/ tickets'[i] = tickets[i]
                 \/ /\ last'.tool = "resolve_ticket"
                    /\ tickets'[i] = [tickets[i] EXCEPT !.status = "resolved"]
              /\ tickets[i].status = "resolved" => tickets'[i].status = "resolved"
        /\ (last'.tool = "resolve_ticket" /\ last' # last
               /\ \A i \in 1..Len(tickets) : tickets[i].id # last'.id) =>
              /\ ~last'.ok
              /\ last'.wAfter = last'.wBefore
              /\ tickets' = tickets ]_vars

C20_Witness ==
    /\ last.tool = "_execute_tool"
    /\ last.name = "create_support_ticket"
    /\ Len(tickets) = 2
    /\ tickets[1].status = "resolved"
    /\ tickets[2].status = "open"

IsPrefix(a, b) == Len(a) <= Len(b) /\ SubSeq(b, 1, Len(a)) = a

\* C21: every step of a turn leaves each session's message log a prefix of
\* what it becomes (messages are only added at the end, none removed, moved
\* or altered), and leaves the log of every session but the turn's as it was.
C21_LogsAppendOnly ==
    [][ \A s \in Sessions :
           /\ IsPrefix(history[s], history'[s])
           /\ s # session_id' => history'[s] = history[s] ]_vars

C21_Witness ==
    /\ Done
    /\ turns = 2
    /\ session_id = "s1"
    /\ Len(history["s0"]) >= 2
    /\ Len(history["s1"]) >= 2

PhraseFree(text) == \A i \in 1..Len(text) : text[i] \notin TechnicalTokens

\* C22: for a text with none of the internal phrases in it, the sanitizer
\* applied to its own result gives that result again.
C22_CleanIsIdempotentOnPlainText ==
    (last.tool = "_clean_response" /\ PhraseFree(last.response)) =>
        last.again = last.out

C22_Witness ==
    /\ last.tool = "_clean_response"
    /\ PhraseFree(last.response)
    /\ Len(last.response) = MaxTextLen
    /\ last.out # last.response
    /\ last.again = last.out

\* C23: when the text left by the substitutions is shorter than 20
\* characters the sanitizer returns its input as it was; an input of more
\* than 20 characters that is nothing but internal phrases comes back whole.
C23_ShortResultFallsBack ==
    last.tool = "_clean_response" =>
        /\ TextLen(last.cleaned) < MinCleanLen => last.out = last.response
        /\ (TextLen(last.response) > MinCleanLen
               /\ \A i \in 1..Len(last.response) :
                     last.response[i] \in TechnicalTokens) =>
              last.out = last.response

C23_Witness ==
    /\ last.tool = "_clean_response"
    /\ last.response = <<"I'll use the fetch_order tool", "fetch_order">>
    /\ last.cleaned = <<>>
    /\ last.out = last.response

\* C24: the step in which the pre-check triggers dispatches no action and
\* calls the reasoning engine not at all; the turn has written the user
\* message, one ticket and the escalation message, and nothing else: orders
\* and payments are as they were.
C24_PreCheckWritesTicketAndMessagesOnly ==
    [][ (t.pc = "precheck" /\ t'.outcome = "pre_escalation") =>
           /\ t'.acts = <<>> /\ t'.llm = 0 /\ tool_results' = <<>>
           /\ orders' = orders /\ pay' = pay /\ stripe' = stripe
           /\ StatusOf(World, "ORD1") = t.st0
           /\ Len(tickets') = t.tk0 + 1
           /\ SubSeq(tickets', 1, t.tk0) = tickets
           /\ Len(history'[session_id]) = t.h0 + 2
           /\ history'[session_id][t.h0 + 1] = Msg("user", t.input)
           /\ history'[session_id][t.h0 + 2] = Msg("assistant", t'.ret)
           /\ \A s \in Sessions \ {session_id} : history'[s] = history[s] ]_vars

C24_Witness ==
    /\ Done
    /\ t.outcome = "pre_escalation"
    /\ t.input = <<"manager", "refund", "ORD1", "a@x.com">>
    /\ Eligible(World, "ORD1")
    /\ orders["ORD1"] = "delivered"
    /\ stripe.refunds = 0
    /\ t.acts = <<>>
    /\ Len(tickets) = t.tk0 + 1

\* the turn left by a fast path, and what it handed to the action
FastDone == Done /\ t.outcome \in {"fast_refund", "fast_replacement"}

Handed == t.ins[Len(t.ins)]

\* the customer record of the order: the row of customers whose customer_id
\* is the one on the order
CustomerRecords(oid) ==
    IF oid \notin DOMAIN OrderCustomer THEN {}
    ELSE {c \in Customers : c.customer_id = OrderCustomer[oid]}

\* C25: in the replacement fast path, when no email is found in the
\* conversation, the email handed to the replacement action is the one on
\* the customer record of the order, and the placeholder only when the order
\* has no customer record.
C25_ReplacementEmailFromCustomerRecord ==
    (Done /\ t.outcome = "fast_replacement" /\ t.email = "") =>
        IF CustomerRecords(t.oid) # {}
        THEN \E c \in CustomerRecords(t.oid) : Handed[2] = c.email
        ELSE Handed[2] = "customer@example.com"

\* the messages get_history(5) returned when the fast path ran: the log
\* without the two messages its exit added
RecentThen ==
    LET log == SubSeq(Log, 1, Len(Log) - 2)
        n == Len(log)
    IN  SubSeq(log, IF n > 5 THEN n - 4 ELSE 1, n)

\* the parameter by scope order: utterance, then context, then stored messages
ByScope(S) ==
    IF FirstIn(t.input, S) # "" THEN FirstIn(t.input, S)
    ELSE IF FirstIn(t.ctx, S) # "" THEN FirstIn(t.ctx, S)
    ELSE ScanMessages("", RecentThen, S)

\* C26: in the refund and in the replacement fast path the order id and the
\* email handed to the action are the match in the utterance when there is
\* one, else the match in the conversation context, else the match in the
\* five most recent stored messages.
C26_ParametersResolvedByScopeOrder ==
    FastDone =>
        /\ Handed[1] = ByScope(OrderIds)
        /\ ByScope(Emails) # "" => Handed[2] = ByScope(Emails)

C28_ReplacementOnlyForDelivered ==
    last.tool = "request_product_replacement" =>
        /\ last.ticketsAfter > last.ticketsBefore => last.before = "delivered"
        /\ last.before # "delivered" =>
              /\ last.ticketsAfter = last.ticketsBefore
              /\ last.res[1] = "[x]"

\* C29: cancel_order sets the status to cancelled only from pending or
\* processing; for an order in any other status it returns a rejection and
\* leaves the status as it was.
C29_CancelOnlyPendingOrProcessing ==
    last.tool = "cancel_order" =>
        IF last.before \in {"pending", "processing"}
        THEN last.after \in {"cancelled", last.before}
        ELSE /\ last.after = last.before
             /\ last.res[1] = "[x]"

\* the amount left to refund is more than 120.00 USD or 10000.00 INR
AboveAutomatedLimit ==
    LET units == (stripe.amount - stripe.refunded) \div 100
        cents == (stripe.amount - stripe.refunded) % 100
    IN  \/ stripe.currency = "USD" /\ (units > 120 \/ (units = 120 /\ cents > 0))
        \/ stripe.currency = "INR" /\ (units > 10000 \/ (units = 10000 /\ cents > 0))

\* C30: a call of process_refund_for_order made while the amount left to
\* refund is above the limit of its currency creates no refund at the
\* processor and leaves the order's status as it was.
C30_OverLimitRefundsNothing ==
    [][ (last'.tool = "process_refund_for_order" /\ AboveAutomatedLimit) =>
           /\ stripe' = stripe
           /\ orders' = orders ]_vars

C30_Witness ==
    /\ last.tool = "process_refund_for_order"
    /\ last.fault = "none"
    /\ stripe.currency = "INR"
    /\ stripe.amount = 1500000
    /\ last.res = R_OverLimit("ORD1", 1500000)
    /\ last.before = "delivered"
    /\ orders["ORD1"] = "delivered"
    /\ stripe.refunds = 0

\* C31: when process_refund_for_order declines a refund because the amount
\* is above the automated limit, a ticket for it has been written to the
\* store by the time the action returns.
C31_OverLimitCreatesTicket ==
    (last.tool = "process_refund_for_order" /\ Len(last.res) > 0
        /\ last.res[1] = "exceeds our automated limit") =>
        /\ last.ticketsAfter = last.ticketsBefore + 1
        /\ Len(tickets) > 0


\* the response holds the marker, in the letter case the loop accepts, and
\* what follows its last occurrence is blank or starts with an object
MarkerThenNothingOrAction(response) ==
    \E i \in DOMAIN response :
       /\ response[i] \in {Marker, MixedMarker}
       /\ \A j \in DOMAIN response : j > i => response[j] \notin {Marker, MixedMarker}
       /\ LET rest == SelectSeq(SubSeq(response, i + 1, Len(response)),
                                LAMBDA tok : tok \notin Blank)
          IN  rest = <<>> \/ Head(rest) \in BraceTokens

\* C32: an iteration whose response holds the final-answer marker followed
\* by nothing, or by text that looks like an action request, does not end
\* the turn: it dispatches nothing, writes nothing to the session's log or
\* to the turn's history, and the loop goes on with one iteration used.
C32_PrematureMarkerContinues ==
    [][ (t.pc = "loop" /\ t'.llm = t.llm + 1
            /\ MarkerThenNothingOrAction(t'.resp)) =>
           /\ t'.pc = "loop"
           /\ t'.it = t.it + 1
           /\ t'.acts = t.acts
           /\ t'.ch = t.ch
           /\ history' = history
           /\ tickets' = tickets ]_vars


\* the response holds no marker and no well-formed action request
NeitherMarkerNorAction(response) ==
    \A i \in DOMAIN response :
       response[i] \notin {Marker, MixedMarker, RefundJson, UnknownJson, NoInputJson}

\* C33: an iteration whose response holds neither the marker nor a
\* parseable action request ends the turn at once: the sanitized response
\* is saved and returned as the answer, nothing is dispatched and no ticket
\* is created.
C33_PlainResponseEndsTurn ==
    [][ (t.pc = "loop" /\ t'.llm = t.llm + 1
            /\ NeitherMarkerNorAction(t'.resp)) =>
           /\ t'.pc = "done"
           /\ t'.ret = _clean_response(t'.resp)
           /\ t'.acts = t.acts
           /\ tool_results' = tool_results
           /\ tickets' = tickets
           /\ history' = add_message(history, session_id, "assistant", t'.ret) ]_vars

C33_Witness ==
    /\ Done
    /\ t.outcome = "plain"
    /\ t.resp = <<BadJson>>
    /\ t.ret = <<BadJson>>
    /\ t.llm = 2
    /\ t.acts = <<"semantic_search_faq", "process_refund_for_order">>
    /\ tickets = <<>>

\* the registered actions declared with two required parameters besides the
\* two the registry splits the input for
TwoParameterActions == {"update_order_status", "modify_order_address"}

\* C34: the registry adapts a delimited input for every action declared
\* with more than one parameter: an input of two or more fields reaches
\* the executor as separate arguments, so the dispatch does not fail for
\* want of an argument.
C34_DelimitedInputAdaptedForAll ==
    (last.tool = "_execute_tool" /\ last.name \in TwoParameterActions
        /\ Len(last.input) >= 2) =>
        /\ last.res[1] # "Error executing tool"
        /\ ~last.raised

\* the utterance holds a refund keyword and an order keyword
RefundAndOrderQuery ==
    /\ HasKeyword(t.input, {"refund", "proceed", "process"})
    /\ HasKeyword(t.input, {"order", "ord", "where is my", "track"})

\* C35: when an utterance holds refund and order keywords and both refund
\* parameters are resolved, the refund detection ends the turn: the refund
\* is the only action dispatched and no order is fetched before it.
C35_RefundBeforeOrderFetch ==
    [][ (t.pc = "refund" /\ RefundAndOrderQuery
            /\ Resolve(OrderIds) # "" /\ Resolve(Emails) # "") =>
           /\ t'.pc = "done"
           /\ t'.acts = <<"process_refund_for_order">>
           /\ t'.ins = << <<Resolve(OrderIds), Resolve(Emails)>> >>
           /\ t'.ch = <<>> ]_vars

C35_Witness ==
    /\ Done
    /\ t.outcome = "fast_refund"
    /\ t.input = <<"refund", "ORD1">>
    /\ t.email = "b@y.com"
    /\ t.acts = <<"process_refund_for_order">>
    /\ "fetch_order" \notin {t.acts[i] : i \in DOMAIN t.acts}
    /\ orders["ORD1"] = "refunded"

\* C36: when the payment processor fails during, or rejects, the creation
\* of the refund, process_refund_for_order returns a failure result, and
\* the order's status and the processor's refunds are as before the call.
C36_ProcessorFailureKeepsOrder ==
    (last.tool = "process_refund_for_order"
        /\ (last.fault = "create" \/ last.res = R_StripeFailed)) =>
        /\ ~IsRefundOk(last.res)
        /\ last.after = last.before
        /\ last.refundsAfter = last.refundsBefore

C36_Witness ==
    /\ last.tool = "process_refund_for_order"
    /\ last.fault = "create"
    /\ last.res = R_StripeFailed
    /\ last.before = "delivered"
    /\ orders["ORD1"] = "delivered"
    /\ stripe.refunds = 0
    /\ stripe.refunded = 0

\* C37: whenever process_refund_for_order returns after a refund was
\* created at the processor, the stored status of the order is refunded: no
\* state after the action has a new processor refund for an order whose
\* status is anything else.
C37_RefundCreatedImpliesOrderRefunded ==
    (last.tool = "process_refund_for_order"
        /\ last.refundsAfter > last.refundsBefore) =>
        /\ last.after = "refunded"
        /\ orders[last.oid] = "refunded"

\* C38: the messages of a request are recorded only under the session the
\* request names: while a request that names no session is served, the
\* agent's session is none that an earlier request named, and the log of
\* such a session is as it was when the request came in.
C38_NoSessionRequestKeepsOutOfNamedSessions ==
    (last.tool = "chat_endpoint" /\ last.session_id = "") =>
        \A s \in RequestSessions \ {""} :
           /\ session_id # s
           /\ history[s] = last.logs[s]

\* C39: whatever the reasoning engine writes (action requests, unknown
\* actions, premature markers, plain text), a turn makes at most
\* max_iterations + 1 calls of the engine, dispatches at most max_iterations
\* actions within the loop, and then returns.
C39_TurnBoundedAndReturns ==
    /\ [](/\ t.llm <= max_iterations + 1
          /\ t.it <= max_iterations
          /\ Len(t.fed) <= max_iterations
          /\ Len(t.acts) - Len(t.pre) <= max_iterations)
    /\ (t.pc = "loop") ~> (t.pc = "done")

C39_Witness ==
    /\ Done
    /\ t.outcome = "synth"
    /\ t.llm = max_iterations + 1
    /\ Len(t.fed) = max_iterations
    /\ t.acts[Len(t.acts)] = "lookup_order"
    /\ t.resp = <<"Let me check", UnknownJson>>

\* C40: what process_refund_for_order does to the store and at the
\* processor does not depend on customer_email: from the state the call was
\* made in and under what the environment did during it, the call with
\* any address, delivered or not, leaves the same orders, payments, refunds
\* and tickets as the call made.
C40_EffectsIndependentOfEmail ==
    [][ last'.tool = "process_refund_for_order" =>
           \E attr \in BOOLEAN :
              \A email \in Emails, mail \in BOOLEAN :
                 process_refund_for_order(
                     World, last'.oid, email,
                     [fault |-> last'.fault, attr |-> attr, mail |-> mail]).w
                   = [orders |-> orders', pay |-> pay', stripe |-> stripe',
                      tickets |-> tickets'] ]_vars

C40_Witness ==
    /\ last.tool = "process_refund_for_order"
    /\ last.res = R_RefundOk("ORD1", 5000, "b@y.com", TRUE)
    /\ \A c \in Customers : c.email # "b@y.com"
    /\ last.fault = "none"
    /\ last.before = "delivered"
    /\ orders["ORD1"] = "refunded"
    /\ last.refundsAfter = last.refundsBefore + 1
=============================================================================
